---- MODULE Spec2Model ----
(***************************************************************************)
(* A model of libtrellis' device database layer (Database.cpp): the device *)
(* catalog (devices.json), the globals loaders, the tile grid cache and    *)
(* the tile bit database cache, with the threads that call into them.      *)
(*                                                                         *)
(* Strings that the code converts (idcode strings, column keys) are        *)
(* sequences of one-character strings, so that the conversions are         *)
(* computed and not assumed.  File paths are built by the concatenations   *)
(* of the code.  A boost property tree is an ordered list of (key, child)  *)
(* pairs: objects are sequences of records that carry their key.           *)
(***************************************************************************)
EXTENDS Integers, Sequences, FiniteSets, TLC

VARIABLES
    db_root,               \* static string db_root
    devices_info,          \* static pt::ptree devices_info
    tilegrid_cache,        \* static map<string, pt::ptree> tilegrid_cache
    tilegrid_cache_mutex,  \* holder of tilegrid_cache_mutex, or NoThread
    bitdb_store,           \* static unordered_map<TileLocator, shared_ptr<..>>
    bitdb_store_mutex,     \* holder of bitdb_store_mutex, or NoThread
    fs_devices,            \* the files <root>/devices.json
    fs_globals,            \* the files <root>/<family>/<device>/globals.json
    fs_tilegrid,           \* the files <root>/<family>/<device>/tilegrid.json
    fs_bits,               \* the files <root>/<family>/tiledata/<type>/bits.db
    ndebug,                \* whether the build defines NDEBUG (assert is a no-op)
    aborted,               \* the process was ended by a failed assert or a crash
    pc,                    \* per thread: where it is in the call it is making
    call,                  \* per thread: the call's arguments and locals
    ret,                   \* per thread: what its last finished call gave
    tg_reads,              \* per device key: completed read_json of a tilegrid
    bitdb_loads,           \* per tile locator: TileBitDatabase objects built
    next_object            \* identity given to the next TileBitDatabase built

vars == <<db_root, devices_info, tilegrid_cache, tilegrid_cache_mutex,
          bitdb_store, bitdb_store_mutex, fs_devices, fs_globals, fs_tilegrid,
          fs_bits, ndebug, aborted, pc, call, ret, tg_reads, bitdb_loads,
          next_object>>

(***************************************************************************)
(* Bounds of the model.                                                    *)
(***************************************************************************)
NumThreads == 2
MaxObjects == 3
MaxReads == 2
MaxCols == 3
MaxGlobals == 3

Threads == 1..NumThreads
NoThread == 0

Roots == {"r0", "r1", "r2"}
Families == {"F1", "F2"}
Devices == {"D1", "D2"}
TileTypes == {"T1"}

DeviceLocators == [family : Families, device : Devices]
TileLocators == [family : Families, tiletype : TileTypes]

(***************************************************************************)
(* Strings as character sequences, and the conversions of the C library.   *)
(***************************************************************************)
DecDigits == {"0", "1", "2", "3", "4", "5", "6", "7", "8", "9"}
HexLetters == {"a", "b", "c", "d", "e", "f"}

DigitVal(c) ==
    CASE c = "0" -> 0 [] c = "1" -> 1 [] c = "2" -> 2 [] c = "3" -> 3
      [] c = "4" -> 4 [] c = "5" -> 5 [] c = "6" -> 6 [] c = "7" -> 7
      [] c = "8" -> 8 [] c = "9" -> 9 [] c = "a" -> 10 [] c = "b" -> 11
      [] c = "c" -> 12 [] c = "d" -> 13 [] c = "e" -> 14 [] c = "f" -> 15
      [] OTHER -> 99

IsDigitOf(c, base) == DigitVal(c) < base

\* The digits of s from position i on, read in the base, up to the first
\* character that is no digit of the base; acc is the value so far.
RECURSIVE ReadDigits(_, _, _, _)
ReadDigits(s, i, base, acc) ==
    IF i > Len(s) \/ ~IsDigitOf(s[i], base)
    THEN acc
    ELSE ReadDigits(s, i + 1, base, acc * base + DigitVal(s[i]))

\* strtoul(str, nullptr, 0): the base is taken from the prefix, 0x for
\* sixteen, a leading 0 for eight, ten otherwise; no digits give 0.
\* (strtoul(str, nullptr, 10): the prefix is not looked at)
strtoul_base10(s) == ReadDigits(s, 1, 10, 0)

strtoul_base0(s) ==
    IF Len(s) >= 3 /\ s[1] = "0" /\ s[2] = "x" /\ IsDigitOf(s[3], 16)
    THEN ReadDigits(s, 3, 16, 0)
    ELSE IF Len(s) >= 1 /\ s[1] = "0"
         THEN ReadDigits(s, 1, 8, 0)
         ELSE ReadDigits(s, 1, 10, 0)

\* uint32_t(strtoul(...)).  The idcode strings of the model stay below 2^31,
\* where the narrowing cast changes nothing.
parse_uint32(str) == strtoul_base0(str)

(***************************************************************************)
(* devices.json as a property tree, and the catalog lookups.               *)
(***************************************************************************)
EmptyTree == [has_families |-> FALSE, families |-> <<>>]

NoLocator == [found |-> FALSE, family |-> "", device |-> ""]

\* The (family, device) pairs of the tree in the order of the two nested
\* loops of find_device_generic.
RECURSIVE DevicePairsFrom(_, _, _)
DevicePairsFrom(fams, i, j) ==
    IF i > Len(fams) THEN <<>>
    ELSE IF j > Len(fams[i].devices) THEN DevicePairsFrom(fams, i + 1, 1)
    ELSE <<[family |-> fams[i].name, dev |-> fams[i].devices[j]]>>
         \o DevicePairsFrom(fams, i, j + 1)

DevicePairs(info) == DevicePairsFrom(info.families, 1, 1)

\* (a scan that goes on after a match and returns the last one)
RECURSIVE ScanByNameLast(_, _, _)
ScanByNameLast(pairs, k, name) ==
    IF k > Len(pairs) THEN NoLocator
    ELSE IF ScanByNameLast(pairs, k + 1, name).found
         THEN ScanByNameLast(pairs, k + 1, name)
         ELSE IF pairs[k].dev.name = name
              THEN [found |-> TRUE, family |-> pairs[k].family,
                    device |-> pairs[k].dev.name]
              ELSE NoLocator

\* find_device_generic with f = (n == name)
RECURSIVE ScanByName(_, _, _)
ScanByName(pairs, k, name) ==
    IF k > Len(pairs) THEN NoLocator
    ELSE IF pairs[k].dev.name = name
         THEN [found |-> TRUE, family |-> pairs[k].family,
               device |-> pairs[k].dev.name]
         ELSE ScanByName(pairs, k + 1, name)

\* find_device_generic with f = (parse_uint32(idcode) == idcode)
RECURSIVE ScanByIdcode(_, _, _)
ScanByIdcode(pairs, k, idcode) ==
    IF k > Len(pairs) THEN NoLocator
    ELSE IF parse_uint32(pairs[k].dev.idcode) = idcode
         THEN [found |-> TRUE, family |-> pairs[k].family,
               device |-> pairs[k].dev.name]
         ELSE ScanByIdcode(pairs, k + 1, idcode)

\* The outcome of a call: the exception it ended with, or "ok" and a value.
Outcome(status, val) == [status |-> status, val |-> val]

find_device_by_name(info, name) ==
    IF ~info.has_families THEN Outcome("ptree_bad_path", NoLocator)
    ELSE LET found == ScanByName(DevicePairs(info), 1, name)
         IN  IF ~found.found THEN Outcome("runtime_error", NoLocator)
             ELSE Outcome("ok", found)

\* (the optional is dereferenced without the test of found)
find_device_by_idcode_unchecked(info, idcode) ==
    IF ~info.has_families THEN Outcome("ptree_bad_path", NoLocator)
    ELSE Outcome("ok", ScanByIdcode(DevicePairs(info), 1, idcode))

find_device_by_idcode(info, idcode) ==
    IF ~info.has_families THEN Outcome("ptree_bad_path", NoLocator)
    ELSE LET found == ScanByIdcode(DevicePairs(info), 1, idcode)
         IN  IF ~found.found THEN Outcome("runtime_error", NoLocator)
             ELSE Outcome("ok", found)

\* ptree::get_child(key): the first child with the key.
HasChild(seq, key) == \E i \in 1..Len(seq) : seq[i].name = key
GetChild(seq, key) ==
    seq[CHOOSE i \in 1..Len(seq) :
            seq[i].name = key /\ \A j \in 1..(i - 1) : seq[j].name # key]

NoChipInfo ==
    [family |-> "", name |-> "", num_frames |-> 0, bits_per_frame |-> 0,
     pad_bits_after_frame |-> 0, pad_bits_before_frame |-> 0, idcode |-> 0,
     max_row |-> 0, max_col |-> 0, col_bias |-> 0]

\* (num_frames filled in from the wrong field)
ChipInfoOfWrongFrames(dev, part) ==
    [family |-> part.family, name |-> part.device,
     num_frames |-> dev.bits_per_frame,
     bits_per_frame |-> dev.bits_per_frame,
     pad_bits_after_frame |-> dev.pad_bits_after_frame,
     pad_bits_before_frame |-> dev.pad_bits_before_frame,
     idcode |-> parse_uint32(dev.idcode),
     max_row |-> dev.max_row, max_col |-> dev.max_col,
     col_bias |-> dev.col_bias]

\* The ChipInfo filled in from the device's entry of the catalog.
ChipInfoOf(dev, part) ==
    [family |-> part.family, name |-> part.device,
     num_frames |-> dev.frames,
     bits_per_frame |-> dev.bits_per_frame,
     pad_bits_after_frame |-> dev.pad_bits_after_frame,
     pad_bits_before_frame |-> dev.pad_bits_before_frame,
     idcode |-> parse_uint32(dev.idcode),
     max_row |-> dev.max_row, max_col |-> dev.max_col,
     col_bias |-> dev.col_bias]

\* (a lookup of the device name alone, in whichever family has it)
get_chip_info_by_device(info, part) ==
    IF \A k \in 1..Len(DevicePairs(info)) :
           DevicePairs(info)[k].dev.name # part.device
    THEN Outcome("ptree_bad_path", NoChipInfo)
    ELSE Outcome("ok",
             ChipInfoOf(DevicePairs(info)[
                            CHOOSE k \in 1..Len(DevicePairs(info)) :
                                DevicePairs(info)[k].dev.name = part.device].dev,
                        part))

get_chip_info(info, part) ==
    IF \/ ~info.has_families
       \/ ~HasChild(info.families, part.family)
       \/ ~HasChild(GetChild(info.families, part.family).devices, part.device)
    THEN Outcome("ptree_bad_path", NoChipInfo)
    ELSE Outcome("ok",
             ChipInfoOf(GetChild(GetChild(info.families, part.family).devices,
                                 part.device), part))

(***************************************************************************)
(* Files.  A path is the string the code concatenates.                     *)
(***************************************************************************)
RootStrings == {""} \cup Roots

devices_path(root) == root \o "/" \o "devices.json"
globals_path(root, part) ==
    root \o "/" \o part.family \o "/" \o part.device \o "/globals.json"
tilegrid_path(root, part) ==
    root \o "/" \o part.family \o "/" \o part.device \o "/tilegrid.json"
bitdb_path(root, tile) ==
    root \o "/" \o tile.family \o "/tiledata/" \o tile.tiletype \o "/bits.db"

DevicesPaths == {devices_path(r) : r \in RootStrings}
GlobalsPaths == {globals_path(r, p) : r \in RootStrings, p \in DeviceLocators}
TilegridPaths == {tilegrid_path(r, p) : r \in RootStrings, p \in DeviceLocators}
BitdbPaths == {bitdb_path(r, t) : r \in RootStrings, t \in TileLocators}

\* A file holds its kind ("missing", "badjson", "json", "db") and, when it is
\* JSON, the tree it parses to.
\* pt::read_json(path, tree): a missing file and a file that is no JSON both
\* throw json_parser_error and leave the tree as it was.
read_json(file) ==
    IF file.kind = "json" THEN Outcome("ok", file.tree)
    ELSE Outcome("json_parser_error", file.tree)

(***************************************************************************)
(* tilegrid.json and the TileInfo sequence built from it.                  *)
(***************************************************************************)
TileFields == {"cols", "rows", "start_bit", "start_frame", "type", "sites"}

SiteInfoOf(site) ==
    [type |-> site.name, col |-> site.pos_col, row |-> site.pos_row]

TileInfoOf(tile, part, info) ==
    [family |-> part.family, device |-> part.device,
     max_col |-> info.max_col, max_row |-> info.max_row,
     col_bias |-> info.col_bias,
     name |-> tile.name,
     num_frames |-> tile.cols, bits_per_frame |-> tile.rows,
     bit_offset |-> tile.start_bit, frame_offset |-> tile.start_frame,
     type |-> tile.type,
     sites |-> [k \in 1..Len(tile.sites) |-> SiteInfoOf(tile.sites[k])]]

\* The loop over the tiles of the table: get<int>/get<string>/get_child of a
\* field the tile lacks throws ptree_bad_path and nothing is returned.
BuildTiles(tg, part, info) ==
    IF \E i \in 1..Len(tg) : tg[i].present # TileFields
    THEN Outcome("ptree_bad_path", [tiles |-> <<>>])
    ELSE Outcome("ok",
             [tiles |-> [i \in 1..Len(tg) |-> TileInfoOf(tg[i], part, info)]])

(***************************************************************************)
(* The database on disk that the threads of Spec work on.                  *)
(***************************************************************************)
DevEntry(name, idcode, frames, max_row) ==
    [name |-> name, idcode |-> idcode, frames |-> frames,
     bits_per_frame |-> 8, pad_bits_after_frame |-> 0,
     pad_bits_before_frame |-> 0, max_row |-> max_row, max_col |-> 3,
     col_bias |-> 0]

CatalogR1 ==
    [has_families |-> TRUE,
     families |->
        << [name |-> "F1",
            devices |-> << DevEntry("D1", <<"0", "x", "1", "0">>, 4, 1),
                           DevEntry("D2", <<"3", "2">>, 5, 1) >>],
           [name |-> "F2",
            devices |-> << DevEntry("D1", <<"0", "x", "2", "1">>, 6, 1) >>] >>]

CatalogR2 ==
    [has_families |-> TRUE,
     families |->
        << [name |-> "F1",
            devices |-> << DevEntry("D1", <<"0", "x", "1", "0">>, 4, 2),
                           DevEntry("D2", <<"0", "4", "0">>, 5, 2) >>] >>]

MissingFile == [kind |-> "missing", tree |-> <<>>]
BadJsonFile == [kind |-> "badjson", tree |-> <<>>]

\* A tile of the table stored at the path; its name tells the file it is in.
TileAt(path, present) ==
    [name |-> path \o ":R1C1", present |-> present, cols |-> 2, rows |-> 3,
     start_bit |-> 0, start_frame |-> 0, type |-> "T1",
     sites |-> << [name |-> "S0", pos_col |-> 1, pos_row |-> 1] >>]

GoodTilegrid(path) == [kind |-> "json", tree |-> <<TileAt(path, TileFields)>>]
\* JSON that parses, with a tile that lacks its "rows" field.
BadSchemaTilegrid(path) ==
    [kind |-> "json", tree |-> <<TileAt(path, TileFields \ {"rows"})>>]

BitsFile == [kind |-> "db", tree |-> <<>>]

LocR(f, d) == [family |-> f, device |-> d]
LocT(f, tt) == [family |-> f, tiletype |-> tt]

\* The tilegrid file that starts out broken and that the environment can
\* correct.
RepairableTilegrid == tilegrid_path("r1", LocR("F1", "D2"))

DiskDevices ==
    [p \in DevicesPaths |->
        IF p = devices_path("r1") THEN [kind |-> "json", tree |-> CatalogR1]
        ELSE IF p = devices_path("r2") THEN [kind |-> "json", tree |-> CatalogR2]
        ELSE [kind |-> "missing", tree |-> EmptyTree]]

DiskTilegrid(broken) ==
    [p \in TilegridPaths |->
        IF p = RepairableTilegrid THEN broken
        ELSE IF p \in {tilegrid_path("r1", LocR("F1", "D1")),
                       tilegrid_path("r1", LocR("F2", "D1")),
                       tilegrid_path("r2", LocR("F1", "D1"))}
             THEN GoodTilegrid(p)
             ELSE IF p = tilegrid_path("r2", LocR("F1", "D2"))
             THEN BadSchemaTilegrid(p)
             ELSE MissingFile]

DiskBits ==
    [p \in BitdbPaths |->
        IF p \in {bitdb_path("r1", LocT("F1", "T1")),
                  bitdb_path("r2", LocT("F1", "T1")),
                  bitdb_path("r2", LocT("F2", "T1"))}
        THEN BitsFile ELSE MissingFile]

(***************************************************************************)
(* globals.json of the two families and the loaders.                       *)
(***************************************************************************)
\* std::stoi(str): the leading decimal digits; invalid_argument without any.
stoi(s) ==
    IF Len(s) = 0 \/ ~IsDigitOf(s[1], 10)
    THEN Outcome("invalid_argument", 0)
    ELSE Outcome("ok", ReadDigits(s, 1, 10, 0))

DigitChar(d) ==
    CASE d = 0 -> "0" [] d = 1 -> "1" [] d = 2 -> "2" [] d = 3 -> "3"
      [] d = 4 -> "4" [] d = 5 -> "5" [] d = 6 -> "6" [] d = 7 -> "7"
      [] d = 8 -> "8" [] OTHER -> "9"

\* std::to_string(n) for 0 <= n < 100
to_string(n) ==
    IF n < 10 THEN <<DigitChar(n)>>
    ELSE <<DigitChar(n \div 10), DigitChar(n % 10)>>

Substr(s, from) == [k \in 1..(Len(s) - from + 1) |-> s[k + from - 1]]

NoEcp5Globals == [quadrants |-> <<>>, tapsegs |-> <<>>, spinesegs |-> <<>>]

\* The first status of the sequence that is not "ok", or "ok".
FirstFailure(statuses) ==
    IF \A i \in 1..Len(statuses) : statuses[i] = "ok" THEN "ok"
    ELSE statuses[CHOOSE i \in 1..Len(statuses) :
                      /\ statuses[i] # "ok"
                      /\ \A j \in 1..(i - 1) : statuses[j] = "ok"]

Ecp5TapStatus(tap, nd) ==
    IF ~nd /\ (Len(tap.name) = 0 \/ tap.name[1] # "C") THEN "abort"
    ELSE stoi(Substr(tap.name, 2)).status

get_global_info_ecp5(file, nd) ==
    LET parsed == read_json(file)
        glb == parsed.val
        status ==
            IF parsed.status # "ok" THEN parsed.status
            ELSE IF glb.shape # "ecp5" THEN "ptree_bad_path"
            ELSE FirstFailure(
                   [i \in 1..Len(glb.taps) |-> Ecp5TapStatus(glb.taps[i], nd)]
                   \o [i \in 1..Len(glb.spines) |->
                          stoi(Substr(glb.spines[i].name, 3)).status])
    IN  IF status # "ok" THEN Outcome(status, NoEcp5Globals)
        ELSE Outcome("ok",
               [quadrants |->
                    [i \in 1..Len(glb.quadrants) |->
                        [name |-> glb.quadrants[i].name,
                         x0 |-> glb.quadrants[i].x0, x1 |-> glb.quadrants[i].x1,
                         y0 |-> glb.quadrants[i].y0, y1 |-> glb.quadrants[i].y1]],
                tapsegs |->
                    [i \in 1..Len(glb.taps) |->
                        [tap_col |-> stoi(Substr(glb.taps[i].name, 2)).val,
                         lx0 |-> glb.taps[i].lx0, lx1 |-> glb.taps[i].lx1,
                         rx0 |-> glb.taps[i].rx0, rx1 |-> glb.taps[i].rx1]],
                spinesegs |->
                    [i \in 1..Len(glb.spines) |->
                        [quadrant |-> SubSeq(glb.spines[i].name, 1, 2),
                         tap_col |-> stoi(Substr(glb.spines[i].name, 3)).val,
                         spine_row |-> glb.spines[i].y,
                         spine_col |-> glb.spines[i].x]]])

NoMachXO2Globals ==
    [lr_conns |-> <<>>, ud_conns |-> <<>>, branch_spans |-> <<>>,
     missing_dccs |-> <<>>]

\* assert(col_no == std::stoi(key)) for the entry at position pos (col_no is
\* pos - 1); with NDEBUG the expression is not evaluated at all.
ColumnAssert(key, pos, nd) ==
    IF nd THEN "ok"
    ELSE IF stoi(key).status # "ok" THEN "invalid_argument"
    ELSE IF stoi(key).val # pos - 1 THEN "abort"
    ELSE "ok"

\* The up-down connections as read: one list of global numbers per entry of
\* "ud-conns", in file order.
UdConnsOf(glb) == [i \in 1..Len(glb.ud_conns) |-> glb.ud_conns[i].globals]

\* (a loop over the global numbers that stops after the first)
UdConnsAtFirstOnly(glb, pos) ==
    IF pos <= Len(glb.ud_conns) /\ Len(glb.ud_conns[pos].globals) > 0
    THEN <<glb.ud_conns[pos].globals[1]>> ELSE <<>>

\* glbs.ud_conns[col_no] for the branch-span entry at position pos.  Past the
\* end of the vector the read is undefined: oob says what the build does.
UdConnsAt(glb, pos) ==
    IF pos <= Len(glb.ud_conns) THEN glb.ud_conns[pos].globals ELSE <<>>

\* One entry of "branch-spans": the assert, the read of ud_conns[col_no],
\* then one get_child(to_string(global_no)) per global number.
BranchSpanStatus(glb, pos, nd, oob) ==
    IF ColumnAssert(glb.branch_spans[pos].name, pos, nd) # "ok"
    THEN ColumnAssert(glb.branch_spans[pos].name, pos, nd)
    ELSE IF pos > Len(glb.ud_conns) /\ oob = "crash" THEN "crash"
    ELSE IF \E k \in 1..Len(UdConnsAt(glb, pos)) :
                ~HasChild(glb.branch_spans[pos].spans,
                          to_string(UdConnsAt(glb, pos)[k]))
         THEN "ptree_bad_path"
         ELSE "ok"

BranchSpansOf(glb) ==
    [pos \in 1..Len(glb.branch_spans) |->
        [k \in 1..Len(UdConnsAt(glb, pos)) |->
            GetChild(glb.branch_spans[pos].spans,
                     to_string(UdConnsAt(glb, pos)[k])).span]]

get_global_info_machxo2(file, nd, oob) ==
    LET parsed == read_json(file)
        glb == parsed.val
        status ==
            IF parsed.status # "ok" THEN parsed.status
            ELSE IF glb.shape # "machxo2" THEN "ptree_bad_path"
            ELSE FirstFailure(
                   [i \in 1..Len(glb.ud_conns) |->
                       ColumnAssert(glb.ud_conns[i].name, i, nd)]
                   \o [i \in 1..Len(glb.branch_spans) |->
                          BranchSpanStatus(glb, i, nd, oob)]
                   \o [i \in 1..Len(glb.missing_dccs) |->
                          stoi(glb.missing_dccs[i].name).status])
    IN  IF status # "ok" THEN Outcome(status, NoMachXO2Globals)
        ELSE Outcome("ok",
               [lr_conns |->
                    [i \in 1..Len(glb.lr_conns) |->
                        [name |-> glb.lr_conns[i].name,
                         row |-> glb.lr_conns[i].row,
                         row_span |-> glb.lr_conns[i].row_span]],
                ud_conns |-> UdConnsOf(glb),
                branch_spans |-> BranchSpansOf(glb),
                missing_dccs |->
                    [i \in 1..Len(glb.missing_dccs) |->
                        [row |-> stoi(glb.missing_dccs[i].name).val,
                         missing |-> glb.missing_dccs[i].missing]]])

\* The trees of globals.json.  get_child of a section the file lacks throws
\* ptree_bad_path: a tree of the other family's shape has none of them.
Ecp5Tree ==
    [shape |-> "ecp5",
     quadrants |-> << [name |-> "UL", x0 |-> 0, x1 |-> 1, y0 |-> 0, y1 |-> 1] >>,
     taps |-> << [name |-> <<"C", "5">>, lx0 |-> 0, lx1 |-> 4, rx0 |-> 5,
                  rx1 |-> 9] >>,
     spines |-> << [name |-> <<"U", "L", "5">>, y |-> 2, x |-> 3] >>]

UdColumn(key, globals) == [name |-> key, globals |-> globals]

\* A branch-span entry: under each of the keys a (begin, end) pair, which
\* here tells the column key and the span key it is stored under.
BsColumn(key, spankeys) ==
    [name |-> key,
     spans |-> [k \in 1..Len(spankeys) |->
                   [name |-> spankeys[k],
                    span |-> <<stoi(key).val, stoi(spankeys[k]).val>>]]]

MachXO2Tree(ud, bs) ==
    [shape |-> "machxo2",
     lr_conns |-> << [name |-> "lr0", row |-> 1, row_span |-> <<0, 2>>] >>,
     ud_conns |-> ud,
     branch_spans |-> bs,
     missing_dccs |-> << [name |-> <<"1">>, missing |-> <<2>>] >>]

GoodMachXO2Tree ==
    MachXO2Tree(<< UdColumn(<<"0">>, <<1, 2>>), UdColumn(<<"1">>, <<1>>) >>,
                << BsColumn(<<"0">>, << <<"1">>, <<"2">> >>),
                   BsColumn(<<"1">>, << <<"1">> >>) >>)

DiskGlobals ==
    [p \in GlobalsPaths |->
        IF p \in {globals_path("", LocR("F1", "D1")),
                  globals_path("r1", LocR("F1", "D1"))}
        THEN [kind |-> "json", tree |-> GoodMachXO2Tree]
        ELSE IF p = globals_path("r1", LocR("F2", "D1"))
        THEN [kind |-> "json", tree |-> Ecp5Tree]
        ELSE MissingFile]

(***************************************************************************)
(* The state of the process and of its threads.                            *)
(***************************************************************************)
Nothing == [none |-> TRUE]

NoCall ==
    [part |-> LocR("", ""), tile |-> LocT("", ""), path |-> "",
     info |-> NoChipInfo, read |-> {}]

\* What a finished call gave: the operation and its argument, "ok" or the
\* exception, the value, and the files the call read.  from is the lookup
\* whose locator the client passed on as the argument, when it did.
Result(op, arg, status, val, read) ==
    [op |-> op, arg |-> arg, status |-> status, val |-> val, read |-> read,
     from |-> [op |-> "none", arg |-> Nothing]]

NoResult == Result("none", Nothing, "none", Nothing, {})

NoTable == [present |-> FALSE, tree |-> <<>>]
NoObject == [present |-> FALSE, object |-> 0, path |-> ""]

\* The files a read_json or a constructor given the path reads.
FilesRead(file, path) == IF file.kind = "missing" THEN {} ELSE {path}

\* An outcome that ends the process: a failed assert, a crash.
Fatal(status) == status \in {"abort", "crash"}

InitWith(devs, globs, grids, bits, nd) ==
    /\ db_root = ""
    /\ devices_info = EmptyTree
    /\ tilegrid_cache = [d \in Devices |-> NoTable]
    /\ tilegrid_cache_mutex = NoThread
    /\ bitdb_store = [k \in TileLocators |-> NoObject]
    /\ bitdb_store_mutex = NoThread
    /\ fs_devices = devs
    /\ fs_globals = globs
    /\ fs_tilegrid = grids
    /\ fs_bits = bits
    /\ ndebug = nd
    /\ aborted = FALSE
    /\ pc = [t \in Threads |-> "idle"]
    /\ call = [t \in Threads |-> NoCall]
    /\ ret = [t \in Threads |-> NoResult]
    /\ tg_reads = [d \in Devices |-> 0]
    /\ bitdb_loads = [k \in TileLocators |-> 0]
    /\ next_object = 1

Init ==
    \E nd \in BOOLEAN :
        InitWith(DiskDevices, DiskGlobals, DiskTilegrid(BadJsonFile), DiskBits,
                 nd)

disk == <<fs_devices, fs_globals, fs_tilegrid, fs_bits>>
catalog == <<db_root, devices_info>>
tilegrid_state == <<tilegrid_cache, tilegrid_cache_mutex, tg_reads>>
bitdb_state == <<bitdb_store, bitdb_store_mutex, bitdb_loads, next_object>>

Ready(t) == ~aborted /\ pc[t] = "idle"

\* A call that is one step: it only reads state that no thread is writing.
Returns(t, result) ==
    /\ ret' = [ret EXCEPT ![t] = result]
    /\ aborted' = (aborted \/ Fatal(result.status))
    /\ UNCHANGED <<pc, call, ndebug>>

(***************************************************************************)
(* load_database(root)                                                     *)
(***************************************************************************)
\* (a load_database that empties the tilegrid cache of the previous root)
load_database_clearing(t, root) ==
    /\ ~aborted
    /\ \A u \in Threads : pc[u] = "idle"
    /\ LET path == devices_path(root)
           parsed == read_json(fs_devices[path])
       IN  /\ db_root' = root
           /\ devices_info' =
                 IF parsed.status = "ok" THEN parsed.val ELSE devices_info
           /\ Returns(t, Result("load_database", [root |-> root],
                                parsed.status, Nothing,
                                FilesRead(fs_devices[path], path)))
    /\ tilegrid_cache' = [d \in Devices |-> NoTable]
    /\ UNCHANGED <<tilegrid_cache_mutex, tg_reads, bitdb_state, disk>>

load_database(t, root) ==
    /\ ~aborted
    /\ \A u \in Threads : pc[u] = "idle"
    /\ LET path == devices_path(root)
           parsed == read_json(fs_devices[path])
       IN  /\ db_root' = root
           /\ devices_info' =
                 IF parsed.status = "ok" THEN parsed.val ELSE devices_info
           /\ Returns(t, Result("load_database", [root |-> root],
                                parsed.status, Nothing,
                                FilesRead(fs_devices[path], path)))
    /\ UNCHANGED <<tilegrid_state, bitdb_state, disk>>

(***************************************************************************)
(* The lookups of the catalog and the globals loaders.                     *)
(***************************************************************************)
FindDeviceByName(t, name) ==
    /\ Ready(t)
    /\ LET out == find_device_by_name(devices_info, name)
       IN  Returns(t, Result("find_device_by_name", [name |-> name],
                             out.status, out.val, {}))
    /\ UNCHANGED <<catalog, tilegrid_state, bitdb_state, disk>>

FindDeviceByIdcode(t, idcode) ==
    /\ Ready(t)
    /\ LET out == find_device_by_idcode(devices_info, idcode)
       IN  Returns(t, Result("find_device_by_idcode", [idcode |-> idcode],
                             out.status, out.val, {}))
    /\ UNCHANGED <<catalog, tilegrid_state, bitdb_state, disk>>

\* (a lookup that creates the family it does not find, as operator[] of a
\* map does)
GetChipInfoInserting(t, part) ==
    /\ Ready(t)
    /\ LET out == get_chip_info(devices_info, part)
       IN  /\ Returns(t, Result("get_chip_info", part, out.status, out.val, {}))
           /\ devices_info' =
                  IF devices_info.has_families
                     /\ ~HasChild(devices_info.families, part.family)
                  THEN [devices_info EXCEPT !.families =
                           Append(@, [name |-> part.family, devices |-> <<>>])]
                  ELSE devices_info
    /\ UNCHANGED <<db_root, tilegrid_state, bitdb_state, disk>>

GetChipInfo(t, part) ==
    /\ Ready(t)
    /\ LET out == get_chip_info(devices_info, part)
       IN  Returns(t, Result("get_chip_info", part, out.status, out.val, {}))
    /\ UNCHANGED <<catalog, tilegrid_state, bitdb_state, disk>>

\* The client passes the locator its last lookup returned to get_chip_info.
GetChipInfoOfFound(t) ==
    /\ Ready(t)
    /\ ret[t].op \in {"find_device_by_name", "find_device_by_idcode"}
    /\ ret[t].status = "ok"
    /\ LET part == LocR(ret[t].val.family, ret[t].val.device)
           out == get_chip_info(devices_info, part)
       IN  Returns(t, [Result("get_chip_info", part, out.status, out.val, {})
                          EXCEPT !.from = [op |-> ret[t].op,
                                           arg |-> ret[t].arg]])
    /\ UNCHANGED <<catalog, tilegrid_state, bitdb_state, disk>>

GetGlobalInfoEcp5(t, part) ==
    /\ Ready(t)
    /\ LET path == globals_path(db_root, part)
           out == get_global_info_ecp5(fs_globals[path], ndebug)
       IN  Returns(t, Result("get_global_info_ecp5", part, out.status,
                             out.val, FilesRead(fs_globals[path], path)))
    /\ UNCHANGED <<catalog, tilegrid_state, bitdb_state, disk>>

GetGlobalInfoMachXO2(t, part) ==
    /\ Ready(t)
    /\ \E oob \in {"crash", "empty"} :
        LET path == globals_path(db_root, part)
            out == get_global_info_machxo2(fs_globals[path], ndebug, oob)
        IN  Returns(t, Result("get_global_info_machxo2", part, out.status,
                              out.val, FilesRead(fs_globals[path], path)))
    /\ UNCHANGED <<catalog, tilegrid_state, bitdb_state, disk>>

(***************************************************************************)
(* The two mutexes.  lock_guard's constructor waits until the mutex is     *)
(* free; its destructor frees it, on return and when an exception unwinds. *)
(***************************************************************************)
\* (a lock_guard that does not wait for the holder)
CanLockAlways(mutex) == TRUE

CanLock(mutex) == mutex = NoThread

\* (an unwinding that leaves the mutex with its holder)
UnwindLockLeak(mutex) == mutex

\* The holder of the mutex once the exception has left the lock_guard's scope.
UnwindLock(mutex) == NoThread

(***************************************************************************)
(* get_device_tilegrid(part)                                               *)
(***************************************************************************)
NoTiles == [tiles |-> <<>>]

\* Up to the lock_guard: the assert, the path, get_chip_info.
TilegridCall(t, part) ==
    /\ Ready(t)
    /\ LET out == get_chip_info(devices_info, part)
       IN  IF db_root = "" /\ ~ndebug
           THEN /\ Returns(t, Result("get_device_tilegrid", part, "abort",
                                     NoTiles, {}))
           ELSE IF out.status # "ok"
           THEN /\ Returns(t, Result("get_device_tilegrid", part, out.status,
                                     NoTiles, {}))
           ELSE /\ pc' = [pc EXCEPT ![t] = "tg_lock"]
                /\ call' = [call EXCEPT ![t] =
                               [NoCall EXCEPT !.part = part,
                                    !.path = tilegrid_path(db_root, part),
                                    !.info = out.val]]
                /\ ret' = [ret EXCEPT ![t] = NoResult]
                /\ UNCHANGED <<aborted, ndebug>>
    /\ UNCHANGED <<catalog, tilegrid_state, bitdb_state, disk>>

TilegridLock(t) ==
    /\ ~aborted
    /\ pc[t] = "tg_lock"
    /\ CanLock(tilegrid_cache_mutex)
    /\ tilegrid_cache_mutex' = t
    /\ pc' = [pc EXCEPT ![t] = "tg_find"]
    /\ UNCHANGED <<catalog, tilegrid_cache, tg_reads, bitdb_state, disk,
                   ndebug, aborted, call, ret>>

\* The key of tilegrid_cache: part.device
TilegridKey(part) == part.device

\* (a lookup that never finds the key)
TilegridNeverCached(key) == FALSE

\* tilegrid_cache.find(key) != tilegrid_cache.end()
TilegridCached(key) == tilegrid_cache[key].present

TilegridFind(t) ==
    /\ ~aborted
    /\ pc[t] = "tg_find"
    /\ pc' = [pc EXCEPT ![t] =
                 IF TilegridCached(TilegridKey(call[t].part))
                 THEN "tg_build" ELSE "tg_load"]
    /\ UNCHANGED <<catalog, tilegrid_state, bitdb_state, disk, ndebug,
                   aborted, call, ret>>

\* read_json of the file and the insertion; an exception unwinds the lock.
TilegridLoad(t) ==
    /\ ~aborted
    /\ pc[t] = "tg_load"
    /\ LET key == TilegridKey(call[t].part)
           file == fs_tilegrid[call[t].path]
           parsed == read_json(file)
       IN  IF parsed.status # "ok"
           THEN /\ ret' = [ret EXCEPT ![t] =
                              Result("get_device_tilegrid", call[t].part,
                                     parsed.status, NoTiles,
                                     FilesRead(file, call[t].path))]
                /\ tilegrid_cache_mutex' = UnwindLock(tilegrid_cache_mutex)
                /\ pc' = [pc EXCEPT ![t] = "idle"]
                /\ call' = [call EXCEPT ![t] = NoCall]
                /\ UNCHANGED <<tilegrid_cache, tg_reads>>
           ELSE /\ tg_reads[key] < MaxReads
                /\ tilegrid_cache' = [tilegrid_cache EXCEPT ![key] =
                                         [present |-> TRUE, tree |-> parsed.val]]
                /\ tg_reads' = [tg_reads EXCEPT ![key] = @ + 1]
                /\ pc' = [pc EXCEPT ![t] = "tg_build"]
                /\ call' = [call EXCEPT ![t].read = {call[t].path}]
                /\ UNCHANGED <<tilegrid_cache_mutex, ret>>
    /\ UNCHANGED <<catalog, bitdb_state, disk, ndebug, aborted>>

\* The loop over tilegrid_cache[part.device], then the return.
TilegridBuild(t) ==
    /\ ~aborted
    /\ pc[t] = "tg_build"
    /\ LET tg == tilegrid_cache[TilegridKey(call[t].part)].tree
           out == BuildTiles(tg, call[t].part, call[t].info)
       IN  ret' = [ret EXCEPT ![t] =
                      Result("get_device_tilegrid", call[t].part, out.status,
                             out.val, call[t].read)]
    /\ tilegrid_cache_mutex' =
           IF BuildTiles(tilegrid_cache[TilegridKey(call[t].part)].tree,
                         call[t].part, call[t].info).status = "ok"
           THEN NoThread ELSE UnwindLock(tilegrid_cache_mutex)
    /\ pc' = [pc EXCEPT ![t] = "idle"]
    /\ call' = [call EXCEPT ![t] = NoCall]
    /\ UNCHANGED <<catalog, tilegrid_cache, tg_reads, bitdb_state, disk,
                   ndebug, aborted>>

(***************************************************************************)
(* get_tile_bitdata(tile)                                                  *)
(***************************************************************************)
\* new TileBitDatabase(path): throws when the file cannot be opened.
NewTileBitDatabase(file) ==
    IF file.kind = "db" THEN "ok" ELSE "runtime_error"

NoHandle == [object |-> 0, path |-> ""]

BitdataCall(t, tile) ==
    /\ Ready(t)
    /\ pc' = [pc EXCEPT ![t] = "bd_lock"]
    /\ call' = [call EXCEPT ![t] = [NoCall EXCEPT !.tile = tile]]
    /\ ret' = [ret EXCEPT ![t] = NoResult]
    /\ UNCHANGED <<catalog, tilegrid_state, bitdb_state, disk, ndebug,
                   aborted>>

BitdataLock(t) ==
    /\ ~aborted
    /\ pc[t] = "bd_lock"
    /\ CanLock(bitdb_store_mutex)
    /\ bitdb_store_mutex' = t
    /\ pc' = [pc EXCEPT ![t] = "bd_find"]
    /\ UNCHANGED <<catalog, tilegrid_state, bitdb_store, bitdb_loads,
                   next_object, disk, ndebug, aborted, call, ret>>

\* bitdb_store.find(tile); on a hit, return bitdb_store.at(tile).
BitdataFind(t) ==
    /\ ~aborted
    /\ pc[t] = "bd_find"
    /\ LET tile == call[t].tile
       IN  IF bitdb_store[tile].present
           THEN /\ ret' = [ret EXCEPT ![t] =
                              Result("get_tile_bitdata", tile, "ok",
                                     [object |-> bitdb_store[tile].object,
                                      path |-> bitdb_store[tile].path], {})]
                /\ bitdb_store_mutex' = NoThread
                /\ pc' = [pc EXCEPT ![t] = "idle"]
                /\ call' = [call EXCEPT ![t] = NoCall]
           ELSE /\ pc' = [pc EXCEPT ![t] = "bd_load"]
                /\ UNCHANGED <<bitdb_store_mutex, call, ret>>
    /\ UNCHANGED <<catalog, tilegrid_state, bitdb_store, bitdb_loads,
                   next_object, disk, ndebug, aborted>>

\* The assert, the construction of the database, the insertion, the return.
BitdataLoad(t) ==
    /\ ~aborted
    /\ pc[t] = "bd_load"
    /\ LET tile == call[t].tile
           path == bitdb_path(db_root, tile)
           status == IF db_root = "" /\ ~ndebug THEN "abort"
                     ELSE NewTileBitDatabase(fs_bits[path])
           read == IF status = "abort" THEN {}
                   ELSE FilesRead(fs_bits[path], path)
       IN  IF status # "ok"
           THEN /\ ret' = [ret EXCEPT ![t] =
                              Result("get_tile_bitdata", tile, status,
                                     NoHandle, read)]
                /\ aborted' = Fatal(status)
                /\ bitdb_store_mutex' =
                       IF Fatal(status) THEN bitdb_store_mutex
                       ELSE UnwindLock(bitdb_store_mutex)
                /\ UNCHANGED <<bitdb_store, bitdb_loads, next_object>>
           ELSE /\ next_object <= MaxObjects
                /\ bitdb_store' = [bitdb_store EXCEPT ![tile] =
                                      [present |-> TRUE,
                                       object |-> next_object, path |-> path]]
                /\ bitdb_loads' = [bitdb_loads EXCEPT ![tile] = @ + 1]
                /\ next_object' = next_object + 1
                /\ ret' = [ret EXCEPT ![t] =
                              Result("get_tile_bitdata", tile, "ok",
                                     [object |-> next_object, path |-> path],
                                     read)]
                /\ bitdb_store_mutex' = NoThread
                /\ UNCHANGED aborted
    /\ pc' = [pc EXCEPT ![t] = "idle"]
    /\ call' = [call EXCEPT ![t] = NoCall]
    /\ UNCHANGED <<catalog, tilegrid_state, disk, ndebug>>

(***************************************************************************)
(* The environment: a broken file of the database is corrected on disk.    *)
(***************************************************************************)
RepairTilegrid ==
    /\ ~aborted
    /\ fs_tilegrid[RepairableTilegrid] # GoodTilegrid(RepairableTilegrid)
    /\ fs_tilegrid' = [fs_tilegrid EXCEPT ![RepairableTilegrid] =
                          GoodTilegrid(RepairableTilegrid)]
    /\ UNCHANGED <<catalog, tilegrid_state, bitdb_state, fs_devices,
                   fs_globals, fs_bits, ndebug, aborted, pc, call, ret>>

(***************************************************************************)
(* Spec: the threads of a client calling into the two caches.              *)
(***************************************************************************)
\* The roots that hold a devices.json, and the locators of its devices.
CatalogRoots == {"r1", "r2"}
CatalogLocators == {LocR("F1", "D1"), LocR("F1", "D2"), LocR("F2", "D1")}

Next ==
    \/ \E t \in Threads, root \in CatalogRoots : load_database(t, root)
    \/ \E t \in Threads, part \in CatalogLocators : TilegridCall(t, part)
    \/ \E t \in Threads : TilegridLock(t)
    \/ \E t \in Threads : TilegridFind(t)
    \/ \E t \in Threads : TilegridLoad(t)
    \/ \E t \in Threads : TilegridBuild(t)
    \/ \E t \in Threads, tile \in TileLocators : BitdataCall(t, tile)
    \/ \E t \in Threads : BitdataLock(t)
    \/ \E t \in Threads : BitdataFind(t)
    \/ \E t \in Threads : BitdataLoad(t)

Spec == Init /\ [][Next]_vars

(***************************************************************************)
(* SpecFair: the two caches under a fair scheduler.  A thread that is      *)
(* inside a call goes on (the load of a file terminates), and a thread     *)
(* that waits for a mutex that is free again and again gets it.            *)
(***************************************************************************)
Fairness ==
    \A t \in Threads :
        /\ SF_vars(TilegridLock(t))
        /\ WF_vars(TilegridFind(t))
        /\ WF_vars(TilegridLoad(t))
        /\ WF_vars(TilegridBuild(t))
        /\ SF_vars(BitdataLock(t))
        /\ WF_vars(BitdataFind(t))
        /\ WF_vars(BitdataLoad(t))

\* The calls of the threads: one root, a device whose tilegrid file loads and
\* one whose file does not, a tile type whose bits.db exists and one whose
\* does not.
FairLocators == {LocR("F1", "D1"), LocR("F1", "D2")}

NextFair ==
    \/ \E t \in Threads : load_database(t, "r1")
    \/ \E t \in Threads, part \in FairLocators : TilegridCall(t, part)
    \/ \E t \in Threads : TilegridLock(t)
    \/ \E t \in Threads : TilegridFind(t)
    \/ \E t \in Threads : TilegridLoad(t)
    \/ \E t \in Threads : TilegridBuild(t)
    \/ \E t \in Threads, tile \in TileLocators : BitdataCall(t, tile)
    \/ \E t \in Threads : BitdataLock(t)
    \/ \E t \in Threads : BitdataFind(t)
    \/ \E t \in Threads : BitdataLoad(t)

SpecFair == Init /\ [][NextFair]_vars /\ Fairness

(***************************************************************************)
(* SpecApi: one client thread that uses every operation of the layer, in   *)
(* any order, on a disk whose broken files can be corrected.               *)
(***************************************************************************)
ApiThreads == {1}
ApiNames == {"D1", "DX"}
ApiIdcodes == {16, 99}

InitApi ==
    \E nd \in BOOLEAN :
    \E broken \in {BadJsonFile, BadSchemaTilegrid(RepairableTilegrid)} :
        InitWith(DiskDevices, DiskGlobals, DiskTilegrid(broken), DiskBits, nd)

NextApi ==
    \/ \E t \in ApiThreads, root \in Roots : load_database(t, root)
    \/ \E t \in ApiThreads, name \in ApiNames : FindDeviceByName(t, name)
    \/ \E t \in ApiThreads, idcode \in ApiIdcodes :
            FindDeviceByIdcode(t, idcode)
    \/ \E t \in ApiThreads, part \in CatalogLocators : GetChipInfo(t, part)
    \/ \E t \in ApiThreads : GetChipInfoOfFound(t)
    \/ \E t \in ApiThreads, part \in CatalogLocators :
            GetGlobalInfoMachXO2(t, part)
    \/ \E t \in ApiThreads, part \in CatalogLocators :
            GetGlobalInfoEcp5(t, part)
    \/ \E t \in ApiThreads, part \in CatalogLocators : TilegridCall(t, part)
    \/ \E t \in ApiThreads : TilegridLock(t)
    \/ \E t \in ApiThreads : TilegridFind(t)
    \/ \E t \in ApiThreads : TilegridLoad(t)
    \/ \E t \in ApiThreads : TilegridBuild(t)
    \/ \E t \in ApiThreads, tile \in TileLocators : BitdataCall(t, tile)
    \/ \E t \in ApiThreads : BitdataLock(t)
    \/ \E t \in ApiThreads : BitdataFind(t)
    \/ \E t \in ApiThreads : BitdataLoad(t)
    \/ RepairTilegrid

SpecApi == InitApi /\ [][NextApi]_vars

(***************************************************************************)
(* SpecCatalog: the lookups of the catalog, over the devices.json files    *)
(* with up to two families and up to two devices in a family.  The member  *)
(* names of a JSON object are distinct; a device name may be used in both  *)
(* families.                                                               *)
(***************************************************************************)
IdStrings ==
    { <<"0", "x", "1", "0">>, <<"1", "6">>, <<"0", "1", "6">>,
      <<"0", "x", "1", "2", "3", "4">>, <<"4", "6", "6", "0">> }

Injective(f) == \A i, j \in DOMAIN f : f[i] = f[j] => i = j

InjectiveSeqs(S, maxlen) ==
    UNION { {f \in [1..n -> S] : Injective(f)} : n \in 0..maxlen }

MaxDevicesOf(family) == IF family = "F1" THEN 2 ELSE 1

DeviceLists(maxlen) ==
    UNION { { [k \in 1..Len(names) |-> [name |-> names[k], idcode |-> ids[k]]] :
              ids \in [1..Len(names) -> IdStrings] } :
            names \in InjectiveSeqs(Devices, maxlen) }

\* The entry at position j of the family at position i has 10 * i + j frames.
CatalogOf(fnames, lists) ==
    [has_families |-> TRUE,
     families |->
        [i \in 1..Len(fnames) |->
            [name |-> fnames[i],
             devices |->
                [j \in 1..Len(lists[i]) |->
                    DevEntry(lists[i][j].name, lists[i][j].idcode,
                             10 * i + j, 1)]]]]

CatalogInputs ==
    UNION { { CatalogOf(fnames, lists) :
              lists \in { l \in [1..Len(fnames) -> DeviceLists(2)] :
                            \A i \in 1..Len(fnames) :
                                Len(l[i]) <= MaxDevicesOf(fnames[i]) } } :
            fnames \in InjectiveSeqs(Families, 2) }

CatalogNames == Devices \cup {"DX"}
CatalogIdcodes == {14, 16, 4660, 99}

InitCatalog ==
    \E c \in CatalogInputs :
        InitWith([p \in DevicesPaths |->
                     IF p = devices_path("r1")
                     THEN [kind |-> "json", tree |-> c]
                     ELSE [kind |-> "missing", tree |-> EmptyTree]],
                 DiskGlobals, DiskTilegrid(BadJsonFile), DiskBits, FALSE)

NextCatalog ==
    \/ \E t \in ApiThreads : load_database(t, "r1")
    \/ \E t \in ApiThreads, name \in CatalogNames : FindDeviceByName(t, name)
    \/ \E t \in ApiThreads, idcode \in CatalogIdcodes :
            FindDeviceByIdcode(t, idcode)
    \/ \E t \in ApiThreads, part \in DeviceLocators : GetChipInfo(t, part)
    \/ \E t \in ApiThreads : GetChipInfoOfFound(t)

SpecCatalog == InitCatalog /\ [][NextCatalog]_vars

(***************************************************************************)
(* SpecGlobals: the MachXO2 loader over globals.json files: the column     *)
(* keys of "ud-conns" and "branch-spans" in every order, and one column    *)
(* with every list of global numbers against every set of span keys.       *)
(***************************************************************************)
ColKeys == {to_string(c) : c \in 0..(MaxCols - 1)}
GlobalNos == {1, 2, 3}
GlobalLists == UNION { [1..n -> GlobalNos] : n \in 0..MaxGlobals }
SpanKeySeqs == InjectiveSeqs({to_string(g) : g \in GlobalNos}, 3)

OrderInputs ==
    { MachXO2Tree([i \in 1..Len(uk) |-> UdColumn(uk[i], <<1>>)],
                  [i \in 1..Len(bk) |-> BsColumn(bk[i], << <<"1">> >>)]) :
      uk \in InjectiveSeqs(ColKeys, MaxCols),
      bk \in InjectiveSeqs(ColKeys, MaxCols) }

CountInputs ==
    { MachXO2Tree([i \in 1..MaxCols |->
                      UdColumn(to_string(i - 1), IF i = c THEN g ELSE <<1>>)],
                  [i \in 1..MaxCols |->
                      BsColumn(to_string(i - 1),
                               IF i = c THEN sk ELSE << <<"1">> >>)]) :
      c \in 1..MaxCols, g \in GlobalLists, sk \in SpanKeySeqs }

GlobalsLocator == LocR("F1", "D1")

InitGlobals ==
    \E nd \in BOOLEAN :
    \E tree \in OrderInputs \cup CountInputs :
        InitWith(DiskDevices,
                 [p \in GlobalsPaths |->
                     IF p = globals_path("r1", GlobalsLocator)
                     THEN [kind |-> "json", tree |-> tree]
                     ELSE MissingFile],
                 DiskTilegrid(BadJsonFile), DiskBits, nd)

NextGlobals ==
    \/ \E t \in ApiThreads : load_database(t, "r1")
    \/ \E t \in ApiThreads : GetGlobalInfoMachXO2(t, GlobalsLocator)

SpecGlobals == InitGlobals /\ [][NextGlobals]_vars

(***************************************************************************)
(* The properties.                                                         *)
(***************************************************************************)
TilegridOk(t) ==
    ret[t].op = "get_device_tilegrid" /\ ret[t].status = "ok"
BitdataOk(t) ==
    ret[t].op = "get_tile_bitdata" /\ ret[t].status = "ok"

TileNames(tiles) == [i \in 1..Len(tiles) |-> tiles[i].name]

\* C1: whatever the interleaving of the get_tile_bitdata calls of the
\* threads, once a call for a tile locator has returned a handle, exactly one
\* TileBitDatabase has been constructed for that locator, the handle is the
\* one the store holds, and every call for the locator returned that handle.
C1_OneDatabaseOneHandle ==
    \A t \in Threads :
        BitdataOk(t) =>
            /\ bitdb_loads[ret[t].arg] = 1
            /\ bitdb_store[ret[t].arg].present
            /\ ret[t].val.object = bitdb_store[ret[t].arg].object
            /\ \A u \in Threads :
                   (BitdataOk(u) /\ ret[u].arg = ret[t].arg)
                       => ret[u].val.object = ret[t].val.object

\* Two threads hold a handle for the same locator: one constructed the
\* database, the other found it in the store.
C1_Witness ==
    \E t, u \in Threads :
        /\ BitdataOk(t) /\ BitdataOk(u)
        /\ ret[t].arg = ret[u].arg
        /\ ret[t].read # {} /\ ret[u].read = {}
        /\ ret[t].val.object = ret[u].val.object

\* C2: for every key of the tilegrid cache (a device name) the tilegrid file
\* is read and parsed at most once, and every call that returned tiles for
\* the key was served from the table memoized under it.
C2_TilegridReadOnce ==
    /\ \A d \in Devices : tg_reads[d] <= 1
    /\ \A t \in Threads :
           TilegridOk(t) =>
               /\ tilegrid_cache[ret[t].arg.device].present
               /\ tg_reads[ret[t].arg.device] = 1
               /\ TileNames(ret[t].val.tiles)
                      = TileNames(tilegrid_cache[ret[t].arg.device].tree)

\* Two threads were served for the same key, one after reading the file and
\* the other from the memoized table.
C2_Witness ==
    \E t, u \in Threads :
        /\ TilegridOk(t) /\ TilegridOk(u)
        /\ ret[t].arg.device = ret[u].arg.device
        /\ ret[t].read # {} /\ ret[u].read = {}
        /\ tg_reads[ret[t].arg.device] = 1

\* C3: get_device_tilegrid(L) returns the tiles of L's own file
\* <root>/<L.family>/<L.device>/tilegrid.json, each with L's family and
\* device, whatever was requested before.
C3_TilesOfOwnFile ==
    \A t \in Threads :
        TilegridOk(t) =>
            /\ \A i \in 1..Len(ret[t].val.tiles) :
                   /\ ret[t].val.tiles[i].family = ret[t].arg.family
                   /\ ret[t].val.tiles[i].device = ret[t].arg.device
            /\ \E r \in Roots :
                   /\ fs_tilegrid[tilegrid_path(r, ret[t].arg)].kind = "json"
                   /\ TileNames(ret[t].val.tiles) =
                          TileNames(fs_tilegrid[tilegrid_path(r, ret[t].arg)].tree)

\* The thread is about to load a file that cannot be loaded.
TilegridLoadFails(t) ==
    pc[t] = "tg_load" /\ fs_tilegrid[call[t].path].kind # "json"
BitdataLoadFails(t) ==
    /\ pc[t] = "bd_load"
    /\ ndebug \/ db_root # ""
    /\ fs_bits[bitdb_path(db_root, call[t].tile)].kind # "db"

\* C4: a load that fails (read_json of the tilegrid file, the construction of
\* the bit database) ends the call with the exception, changes no entry of
\* the cache and leaves the cache's mutex free.
C4_FailedLoad ==
    [][\A t \in Threads :
         /\ (TilegridLoadFails(t) /\ pc'[t] # pc[t]) =>
                /\ pc'[t] = "idle"
                /\ ret'[t].op = "get_device_tilegrid"
                /\ ret'[t].status = "json_parser_error"
                /\ tilegrid_cache' = tilegrid_cache
                /\ tilegrid_cache_mutex' = NoThread
         /\ (BitdataLoadFails(t) /\ pc'[t] # pc[t]) =>
                /\ pc'[t] = "idle"
                /\ ret'[t].op = "get_tile_bitdata"
                /\ ret'[t].status = "runtime_error"
                /\ bitdb_store' = bitdb_store
                /\ bitdb_store_mutex' = NoThread]_vars

\* A tilegrid load of one thread and a bit database load of the other have
\* failed, and both mutexes are free.
C4_Witness ==
    \E t, u \in Threads :
        /\ ret[t].op = "get_device_tilegrid"
        /\ ret[t].status = "json_parser_error"
        /\ ret[u].op = "get_tile_bitdata"
        /\ ret[u].status = "runtime_error"
        /\ tilegrid_cache_mutex = NoThread
        /\ bitdb_store_mutex = NoThread

\* C5: before load_database has been called, every operation fails, reads no
\* file and puts nothing into either cache.
C5_FailsBeforeInit ==
    db_root = "" =>
        /\ \A t \in Threads :
               ret[t].op # "none" => (ret[t].status # "ok" /\ ret[t].read = {})
        /\ \A d \in Devices : ~tilegrid_cache[d].present
        /\ \A k \in TileLocators : ~bitdb_store[k].present

\* The globals.json that a call of the MachXO2 loader was given.
MachXO2Call(t) ==
    /\ ret[t].op = "get_global_info_machxo2"
    /\ fs_globals[globals_path(db_root, ret[t].arg)].kind = "json"
MachXO2Input(t) == fs_globals[globals_path(db_root, ret[t].arg)].tree

\* The keys of the columns are 0, 1, 2, ... in file order.
KeysAscending(cols) == \A i \in 1..Len(cols) : cols[i].name = to_string(i - 1)

\* C6: the MachXO2 loader returns no result for a file whose ud-conns or
\* branch-spans column keys are not 0, 1, 2, ... in file order: the call ends
\* in an error.
C6_OutOfOrderRejected ==
    \A t \in Threads :
        (/\ MachXO2Call(t)
         /\ \/ ~KeysAscending(MachXO2Input(t).ud_conns)
            \/ ~KeysAscending(MachXO2Input(t).branch_spans))
            => ret[t].status # "ok"

\* The columns that ud-conns and branch-spans both have.
SharedColumns(glb) ==
    {pos \in 1..Len(glb.ud_conns) : pos <= Len(glb.branch_spans)}

\* A global number of the column has no span under its key.
SpanMissing(glb, pos) ==
    \E k \in 1..Len(glb.ud_conns[pos].globals) :
        \A j \in 1..Len(glb.branch_spans[pos].spans) :
            glb.branch_spans[pos].spans[j].name
                # to_string(glb.ud_conns[pos].globals[k])

PlacesOfName(info, name) ==
    {p \in (1..Len(info.families)) \X (1..2) :
        /\ p[2] <= Len(info.families[p[1]].devices)
        /\ info.families[p[1]].devices[p[2]].name = name}

FirstPlace(places) ==
    CHOOSE p \in places :
        \A q \in places : p[1] < q[1] \/ (p[1] = q[1] /\ p[2] <= q[2])

EntryAt(info, p) == info.families[p[1]].devices[p[2]]

\* C8: find_device_by_name returns the locator of the first (family, device)
\* pair in catalog order whose device name is the name, and fails with
\* "no device in database" exactly when there is no such pair.
C8_FirstMatchByName ==
    \A t \in Threads :
        (ret[t].op = "find_device_by_name" /\ devices_info.has_families) =>
            LET places == PlacesOfName(devices_info, ret[t].arg.name)
            IN  IF places = {}
                THEN ret[t].status = "runtime_error"
                ELSE /\ ret[t].status = "ok"
                     /\ ret[t].val.device = ret[t].arg.name
                     /\ ret[t].val.family =
                            devices_info.families[FirstPlace(places)[1]].name

\* The name is a device of both families and the first family was returned.
C8_Witness ==
    \E t \in Threads :
        /\ ret[t].op = "find_device_by_name"
        /\ ret[t].status = "ok"
        /\ Cardinality(PlacesOfName(devices_info, ret[t].arg.name)) = 2
        /\ ret[t].val.family = devices_info.families[1].name

\* The number a digit string denotes in a base.
RECURSIVE Positional(_, _, _)
Positional(s, n, base) ==
    IF n = 0 THEN 0
    ELSE Positional(s, n - 1, base) * base + DigitVal(s[n])

IsHexString(s) == Len(s) >= 3 /\ s[1] = "0" /\ s[2] = "x"
HexValue(s) == Positional(SubSeq(s, 3, Len(s)), Len(s) - 2, 16)
HasLeadingZero(s) == Len(s) >= 2 /\ s[1] = "0" /\ s[2] # "x"

\* Hexadecimal with 0x, decimal without.
HexOrDecimalValue(s) ==
    IF IsHexString(s) THEN HexValue(s) ELSE Positional(s, Len(s), 10)

\* Hexadecimal with 0x, octal with a leading 0, decimal otherwise.
Base0Value(s) ==
    IF IsHexString(s) THEN HexValue(s)
    ELSE IF HasLeadingZero(s) THEN Positional(s, Len(s), 8)
    ELSE Positional(s, Len(s), 10)

FromIdcode(t) ==
    ret[t].op = "get_chip_info" /\ ret[t].from.op = "find_device_by_idcode"

StoredIdcode(t) ==
    GetChild(GetChild(devices_info.families, ret[t].arg.family).devices,
             ret[t].arg.device).idcode

\* C9 as claimed: find_device_by_idcode(v) followed by get_chip_info gives
\* idcode v, for every v some device carries, and an idcode string in decimal
\* or in 0x-prefixed hexadecimal is given the number it denotes.
C9_DecimalAndHexAgree ==
    \A t \in Threads :
        /\ FromIdcode(t) =>
               ret[t].status = "ok" /\ ret[t].val.idcode = ret[t].from.arg.idcode
        /\ (ret[t].op = "get_chip_info" /\ ret[t].status = "ok") =>
               ret[t].val.idcode = HexOrDecimalValue(StoredIdcode(t))
        /\ (/\ ret[t].op = "find_device_by_idcode"
            /\ devices_info.has_families
            /\ \E k \in 1..Len(DevicePairs(devices_info)) :
                   HexOrDecimalValue(DevicePairs(devices_info)[k].dev.idcode)
                       = ret[t].arg.idcode)
               => ret[t].status = "ok"

\* C9 as amended: the same, with a string that starts with 0 and is not
\* 0x-prefixed read as octal.
C9_IdcodeRoundTrip ==
    \A t \in Threads :
        /\ FromIdcode(t) =>
               ret[t].status = "ok" /\ ret[t].val.idcode = ret[t].from.arg.idcode
        /\ (ret[t].op = "get_chip_info" /\ ret[t].status = "ok") =>
               ret[t].val.idcode = Base0Value(StoredIdcode(t))
        /\ (/\ ret[t].op = "find_device_by_idcode"
            /\ devices_info.has_families
            /\ \E k \in 1..Len(DevicePairs(devices_info)) :
                   Base0Value(DevicePairs(devices_info)[k].dev.idcode)
                       = ret[t].arg.idcode)
               => ret[t].status = "ok"

\* The catalog holds "0x1234" and "4660"; the lookup of 4660 found the first
\* of the two and get_chip_info gave 4660.
C9_Witness ==
    \E t \in Threads :
        /\ FromIdcode(t)
        /\ ret[t].status = "ok"
        /\ ret[t].val.idcode = 4660
        /\ \E j, k \in 1..Len(DevicePairs(devices_info)) :
               /\ DevicePairs(devices_info)[j].dev.idcode
                      = <<"0", "x", "1", "2", "3", "4">>
               /\ DevicePairs(devices_info)[k].dev.idcode
                      = <<"4", "6", "6", "0">>

FromName(t) ==
    ret[t].op = "get_chip_info" /\ ret[t].from.op = "find_device_by_name"

\* C10: for every device name of the catalog, find_device_by_name succeeds
\* and get_chip_info of its locator gives that name, the family the entry is
\* declared under, and the frames and the idcode of the entry.
C10_NameRoundTrip ==
    \A t \in Threads :
        /\ (/\ ret[t].op = "find_device_by_name"
            /\ devices_info.has_families
            /\ PlacesOfName(devices_info, ret[t].arg.name) # {})
               => ret[t].status = "ok"
        /\ FromName(t) =>
               LET name == ret[t].from.arg.name
                   place == FirstPlace(PlacesOfName(devices_info, name))
               IN  /\ ret[t].status = "ok"
                   /\ ret[t].val.name = name
                   /\ ret[t].val.family = devices_info.families[place[1]].name
                   /\ ret[t].val.num_frames = EntryAt(devices_info, place).frames
                   /\ ret[t].val.idcode =
                          Base0Value(EntryAt(devices_info, place).idcode)

\* The entry found by name is declared in the second family of the file, with
\* the idcode "0x10", and the ChipInfo has the idcode 16.
C10_Witness ==
    \E t \in Threads :
        /\ FromName(t)
        /\ ret[t].status = "ok"
        /\ Len(devices_info.families) = 2
        /\ ret[t].val.family = devices_info.families[2].name
        /\ StoredIdcode(t) = <<"0", "x", "1", "0">>
        /\ ret[t].val.idcode = 16

\* The tiles without the fields that are copied from the ChipInfo.
TilesOfTable(tiles) ==
    [i \in 1..Len(tiles) |->
        [tiles[i] EXCEPT !.max_row = 0, !.max_col = 0, !.col_bias = 0]]

GridDimensions(tiles) ==
    [i \in 1..Len(tiles) |->
        <<tiles[i].max_row, tiles[i].max_col, tiles[i].col_bias>>]

\* C11 as claimed: two get_device_tilegrid calls for the same locator that
\* returned tiles returned equal sequences, whatever was called in between.
C11_SameTilesAlways ==
    \A t, u \in Threads :
        (TilegridOk(t) /\ TilegridOk(u) /\ ret[t].arg = ret[u].arg)
            => ret[t].val.tiles = ret[u].val.tiles

\* C11 as amended: the two sequences have the same tiles in the same order
\* with the same fields of the table and the same sites; max_row, max_col and
\* col_bias are the catalog's at the time of each call, and the sequences
\* are equal when these are.
C11_SameTilesOfTable ==
    \A t, u \in Threads :
        (TilegridOk(t) /\ TilegridOk(u) /\ ret[t].arg = ret[u].arg)
            => /\ TilesOfTable(ret[t].val.tiles) = TilesOfTable(ret[u].val.tiles)
               /\ GridDimensions(ret[t].val.tiles)
                      = GridDimensions(ret[u].val.tiles)
                      => ret[t].val.tiles = ret[u].val.tiles
               /\ \A i \in 1..Len(ret[t].val.tiles) :
                      \E r \in CatalogRoots :
                          LET info == get_chip_info(fs_devices[devices_path(r)].tree,
                                                    ret[t].arg)
                          IN  /\ info.status = "ok"
                              /\ ret[t].val.tiles[i].max_row = info.val.max_row
                              /\ ret[t].val.tiles[i].max_col = info.val.max_col
                              /\ ret[t].val.tiles[i].col_bias = info.val.col_bias

\* One call read the file under the first root, load_database was called
\* with the second root, and a later call for the locator was served from
\* the table: same tiles, other grid dimensions.
C11_Witness ==
    \E t, u \in Threads :
        /\ TilegridOk(t) /\ TilegridOk(u)
        /\ ret[t].arg = ret[u].arg
        /\ ret[t].read # {} /\ ret[u].read = {}
        /\ TilesOfTable(ret[t].val.tiles) = TilesOfTable(ret[u].val.tiles)
        /\ ret[t].val.tiles # ret[u].val.tiles
        /\ Len(ret[t].val.tiles) > 0

\* The step is a lookup of thread t, in a loaded catalog, of a name or an
\* idcode that no device of the catalog has.
LookupOfUnknown(t) ==
    /\ ret'[t] # ret[t]
    /\ devices_info.has_families
    /\ \/ /\ ret'[t].op = "find_device_by_name"
          /\ PlacesOfName(devices_info, ret'[t].arg.name) = {}
       \/ /\ ret'[t].op = "find_device_by_idcode"
          /\ \A k \in 1..Len(DevicePairs(devices_info)) :
                 Base0Value(DevicePairs(devices_info)[k].dev.idcode)
                     # ret'[t].arg.idcode

\* C12: find_device_by_name and find_device_by_idcode with a key that matches
\* no device of the catalog fail with "no device in database", return no
\* locator and leave the catalog, the root and both caches as they were.
C12_NotFoundChangesNothing ==
    [][\A t \in Threads :
         LookupOfUnknown(t) =>
             /\ ret'[t].status = "runtime_error"
             /\ ~ret'[t].val.found
             /\ UNCHANGED <<db_root, devices_info, tilegrid_cache, bitdb_store>>
      ]_vars

\* A lookup by idcode found nothing while both caches held an entry.
C12_Witness ==
    \E t \in Threads :
        /\ ret[t].op = "find_device_by_idcode"
        /\ ret[t].status = "runtime_error"
        /\ devices_info.has_families
        /\ \E d \in Devices : tilegrid_cache[d].present
        /\ \E k \in TileLocators : bitdb_store[k].present

\* The step ends a call of thread t of one of the operations that only read.
ReadOnlyCall(t) ==
    /\ ret'[t] # ret[t]
    /\ ret'[t].op \in {"find_device_by_name", "find_device_by_idcode",
                       "get_chip_info", "get_global_info_ecp5",
                       "get_global_info_machxo2"}

\* The step is one of a get_device_tilegrid or get_tile_bitdata call of t.
CacheCallStep(t) ==
    \/ pc'[t] # pc[t]
    \/ /\ ret'[t] # ret[t]
       /\ ret'[t].op \in {"get_device_tilegrid", "get_tile_bitdata"}

\* C13: find_device_by_name, find_device_by_idcode, get_chip_info and the
\* globals loaders leave the catalog, the root and both caches unchanged,
\* whether they return or throw; get_device_tilegrid and get_tile_bitdata
\* leave the catalog and the root unchanged.
C13_ReadOnlyOperations ==
    [][\A t \in Threads :
         /\ ReadOnlyCall(t) =>
                UNCHANGED <<db_root, devices_info, tilegrid_cache, bitdb_store>>
         /\ CacheCallStep(t) => UNCHANGED <<db_root, devices_info>>
      ]_vars

\* With a catalog loaded and an entry in each cache, get_chip_info has failed
\* for a locator that the catalog lacks.
C13_Witness ==
    \E t \in Threads :
        /\ ret[t].op = "get_chip_info"
        /\ ret[t].status = "ptree_bad_path"
        /\ devices_info.has_families
        /\ \E d \in Devices : tilegrid_cache[d].present
        /\ \E k \in TileLocators : bitdb_store[k].present

\* The last call of thread t was a get_device_tilegrid for a locator of the
\* catalog that ended in an exception of read_json or of the loop over the
\* tiles.
TilegridFailed(t) ==
    /\ ret[t].op = "get_device_tilegrid"
    /\ ret[t].status \in {"json_parser_error", "ptree_bad_path"}
    /\ get_chip_info(devices_info, ret[t].arg).status = "ok"

\* C14: after a get_device_tilegrid call that failed on its file (the file is
\* missing, is not JSON, or lacks a field), tilegrid_cache holds no entry for
\* the device, so that a call made after the file is corrected reads it.
C14_FailedCallLeavesNoEntry ==
    \A t \in Threads :
        TilegridFailed(t) => ~tilegrid_cache[ret[t].arg.device].present

\* The threads between the lookup in a cache and the end of the call.
InTilegridSection == {t \in Threads : pc[t] \in {"tg_find", "tg_load", "tg_build"}}
InBitdataSection == {t \in Threads : pc[t] \in {"bd_find", "bd_load"}}

\* C15: in each cache the lookup, the load and the insert are one critical
\* section under the cache's mutex: at most one thread is in it, that thread
\* holds the mutex, and so no two loads of a cache are in progress together.
C15_CriticalSection ==
    /\ Cardinality(InTilegridSection) <= 1
    /\ Cardinality(InBitdataSection) <= 1
    /\ \A t \in InTilegridSection : tilegrid_cache_mutex = t
    /\ \A t \in InBitdataSection : bitdb_store_mutex = t
    /\ Cardinality({t \in Threads : pc[t] = "tg_load"}) <= 1
    /\ Cardinality({t \in Threads : pc[t] = "bd_load"}) <= 1

\* One thread is loading a tilegrid file while another waits for the mutex.
C15_Witness ==
    \E t, u \in Threads :
        /\ pc[t] = "tg_load"
        /\ pc[u] = "tg_lock"
        /\ tilegrid_cache_mutex = t

\* No thread holds both mutexes, no thread waits for a mutex it holds, and a
\* thread that is in no call holds no mutex (unless an assert has ended the
\* process).
LocksWellUsed ==
    \A t \in Threads :
        /\ ~(tilegrid_cache_mutex = t /\ bitdb_store_mutex = t)
        /\ pc[t] = "tg_lock" => tilegrid_cache_mutex # t
        /\ pc[t] = "bd_lock" => bitdb_store_mutex # t
        /\ (pc[t] = "idle" /\ ~aborted) =>
               (tilegrid_cache_mutex # t /\ bitdb_store_mutex # t)

\* C16: under a fair scheduler every get_device_tilegrid and get_tile_bitdata
\* call ends, with its value or its exception (or with the process, when an
\* assert fails), and the mutexes are used so that no call can block for
\* ever.
C16_CallsTerminate ==
    /\ []LocksWellUsed
    /\ \A t \in Threads : (pc[t] # "idle") ~> (pc[t] = "idle" \/ aborted)

\* One thread holds the tilegrid mutex and is about to fail on its file while
\* the other waits for the mutex.
C16_Witness ==
    \E t, u \in Threads :
        /\ pc[t] = "tg_load"
        /\ fs_tilegrid[call[t].path].kind # "json"
        /\ tilegrid_cache_mutex = t
        /\ pc[u] = "tg_lock"

\* The span the file records for a global number in the column at a position
\* of branch-spans.
SpanInFile(glb, c, global_no) ==
    (CHOOSE sp \in {glb.branch_spans[c].spans[j] :
                        j \in 1..Len(glb.branch_spans[c].spans)} :
         sp.name = to_string(global_no)).span

\* C17: a result of the MachXO2 loader has as many branch-span lists as
\* ud_conns lists, the list of column c has one pair for every global number
\* of ud_conns[c], and the i-th pair is the span of the file for the i-th
\* number.
C17_SpansMatchColumns ==
    \A t \in Threads :
        (MachXO2Call(t) /\ ret[t].status = "ok") =>
            /\ Len(ret[t].val.branch_spans) = Len(ret[t].val.ud_conns)
            /\ \A c \in 1..Len(ret[t].val.branch_spans) :
                   c <= Len(ret[t].val.ud_conns) =>
                       /\ Len(ret[t].val.branch_spans[c])
                              = Len(ret[t].val.ud_conns[c])
                       /\ \A i \in 1..Len(ret[t].val.branch_spans[c]) :
                              ret[t].val.branch_spans[c][i] =
                                  SpanInFile(MachXO2Input(t), c,
                                             ret[t].val.ud_conns[c][i])

\* C18: an entry of tilegrid_cache or of bitdb_store, once stored, is never
\* removed or replaced, also not by load_database with another root, and a
\* call that finds the entry is answered from it and reads no file.
C18_EntriesPermanent ==
    [][/\ \A d \in Devices :
              tilegrid_cache[d].present => tilegrid_cache'[d] = tilegrid_cache[d]
       /\ \A k \in TileLocators :
              bitdb_store[k].present => bitdb_store'[k] = bitdb_store[k]
       /\ \A t \in Threads :
              /\ (/\ pc[t] = "tg_find" /\ pc'[t] # pc[t]
                  /\ tilegrid_cache[call[t].part.device].present)
                     => (pc'[t] = "tg_build" /\ call'[t].read = {})
              /\ (pc[t] = "tg_build" /\ pc'[t] = "idle")
                     => /\ ret'[t].read = call[t].read
                        /\ ret'[t].status = "ok" =>
                               TileNames(ret'[t].val.tiles) =
                                   TileNames(tilegrid_cache[call[t].part.device].tree)
              /\ (/\ pc[t] = "bd_find" /\ pc'[t] # pc[t]
                  /\ bitdb_store[call[t].tile].present)
                     => /\ ret'[t].status = "ok"
                        /\ ret'[t].read = {}
                        /\ ret'[t].val.object = bitdb_store[call[t].tile].object
      ]_vars

\* After load_database with the second root, calls were answered from the
\* entries stored under the first root, without a read.
C18_Witness ==
    \E t, u \in Threads :
        /\ db_root = "r2"
        /\ BitdataOk(t) /\ ret[t].read = {}
        /\ ret[t].val.path = bitdb_path("r1", ret[t].arg)
        /\ TilegridOk(u) /\ ret[u].read = {}
        /\ Len(ret[u].val.tiles) > 0
        /\ ret[u].val.tiles[1].name
               = tilegrid_path("r1", ret[u].arg) \o ":R1C1"

\* No family of the catalog with the locator's family name declares a device
\* with the locator's device name.
AbsentFromCatalog(info, part) ==
    \A i \in 1..Len(info.families) :
        info.families[i].name = part.family =>
            \A j \in 1..Len(info.families[i].devices) :
                info.families[i].devices[j].name # part.device

\* The step is the start of a get_device_tilegrid call of thread t.
TilegridCallStarts(t) ==
    /\ pc[t] = "idle"
    /\ \/ pc'[t] = "tg_lock"
       \/ ret'[t] # ret[t] /\ ret'[t].op = "get_device_tilegrid"

TilegridArgument(t) ==
    IF pc'[t] = "tg_lock" THEN call'[t].part ELSE ret'[t].arg

\* C19: get_device_tilegrid for a locator that the catalog lacks fails on
\* get_chip_info, before the mutex and the cache: the call ends with the
\* missing-key error (or, before load_database in a build with asserts, with
\* the assert), takes no mutex, reads no file and leaves the cache as it is.
C19_ChipInfoBeforeLock ==
    [][\A t \in Threads :
         (TilegridCallStarts(t)
          /\ AbsentFromCatalog(devices_info, TilegridArgument(t))) =>
             /\ pc'[t] = "idle"
             /\ \/ ret'[t].status = "ptree_bad_path"
                \/ ret'[t].status = "abort" /\ db_root = "" /\ ~ndebug
             /\ ret'[t].read = {}
             /\ UNCHANGED <<tilegrid_cache, tilegrid_cache_mutex, tg_reads>>
      ]_vars

\* The call failed for a locator that the catalog lacks while a table was
\* memoized under its device name and the other thread held the mutex.
C19_Witness ==
    \E t, u \in Threads :
        /\ ret[t].op = "get_device_tilegrid"
        /\ ret[t].status = "ptree_bad_path"
        /\ devices_info.has_families
        /\ AbsentFromCatalog(devices_info, ret[t].arg)
        /\ tilegrid_cache[ret[t].arg.device].present
        /\ tilegrid_cache_mutex = u
        /\ pc[u] = "tg_find"
====
